---- MODULE Spec2Model ----
(***************************************************************************)
(* Model of the concurrent GDELT acquisition run (src/other/GDELT.py):     *)
(* main() enumerates the days of the range, submits one process_day task   *)
(* per day to a ThreadPoolExecutor, consumes the futures with              *)
(* as_completed, appends every truthy result to daily_articles and          *)
(* rewrites the partial checkpoint file, and rewrites the final file in    *)
(* its finally clause.                                                     *)
(*                                                                         *)
(* A datetime is modelled by its ordinal (days since 2019-01-01), a        *)
(* "%Y-%m-%d" string by the triple <<year, month, day>>, Python's None as  *)
(* the empty sequence and a value v that may be None as <<v>>.             *)
(***************************************************************************)
EXTENDS Integers, Sequences, FiniteSets, TLC

\* ------------------------------------------------------------------ bounds
\* Number of days of the longest range explored (the source's range has 2152).
MaxDays == 3
\* Size of the worker pool (the source sets max_workers = 10 at GDELT.py:114;
\* the model scales it down so that more days than workers can be explored).
max_workers == 2

\* ---------------------------------------------------------------- calendar
EpochYear == 2019

IsLeap(y) == (y % 4 = 0 /\ y % 100 # 0) \/ y % 400 = 0

DaysInYear(y) == IF IsLeap(y) THEN 366 ELSE 365

DaysInMonth(y, m) ==
    IF m = 2 THEN (IF IsLeap(y) THEN 29 ELSE 28)
    ELSE IF m \in {4, 6, 9, 11} THEN 30 ELSE 31

RECURSIVE DaysBeforeYear(_)
DaysBeforeYear(y) ==
    IF y <= EpochYear THEN 0 ELSE DaysBeforeYear(y - 1) + DaysInYear(y - 1)

RECURSIVE DaysBeforeMonth(_, _)
DaysBeforeMonth(y, m) ==
    IF m <= 1 THEN 0 ELSE DaysBeforeMonth(y, m - 1) + DaysInMonth(y, m - 1)

\* datetime.strptime(s, "%Y-%m-%d"): the ordinal of the date written s.
strptime(s) == DaysBeforeYear(s[1]) + DaysBeforeMonth(s[1], s[2]) + (s[3] - 1)

RECURSIVE YearOf(_, _)
YearOf(y, n) == IF n < DaysInYear(y) THEN y ELSE YearOf(y + 1, n - DaysInYear(y))

RECURSIVE MonthOf(_, _, _)
MonthOf(y, m, n) ==
    IF n < DaysInMonth(y, m) THEN m ELSE MonthOf(y, m + 1, n - DaysInMonth(y, m))

\* date.strftime("%Y-%m-%d"): the written form of the date of ordinal n.
strftime(n) ==
    LET y  == YearOf(EpochYear, n)
        ny == n - DaysBeforeYear(y)
        m  == MonthOf(y, 1, ny)
    IN  <<y, m, ny - DaysBeforeMonth(y, m) + 1>>

\* ------------------------------------------------------------- process_day
None == << >>

\* What gd.article_search(f) can do for one day: raise, hand back something
\* that is no DataFrame, or hand back a DataFrame with the given rows.
Row(u, l) == [url |-> u, language |-> l]

Responses ==
    { [kind |-> "raise",     rows |-> << >>],
      [kind |-> "malformed", rows |-> << >>],
      [kind |-> "frame",     rows |-> << >>],
      [kind |-> "frame",     rows |-> <<Row(1, "French")>>],
      [kind |-> "frame",     rows |-> <<Row(1, "French"), Row(2, "English")>>] }

\* FirstEnglish without the break of line 87: the last English row is kept.
RECURSIVE LastEnglish(_)
LastEnglish(rows) ==
    IF rows = << >> THEN None
    ELSE IF LastEnglish(Tail(rows)) # None THEN LastEnglish(Tail(rows))
    ELSE IF Head(rows).language = "English" THEN <<Head(rows)>>
    ELSE None

\* The for loop of lines 84-87: the first row whose language is English.
RECURSIVE FirstEnglish(_)
FirstEnglish(rows) ==
    IF rows = << >> THEN None
    ELSE IF Head(rows).language = "English" THEN <<Head(rows)>>
    ELSE FirstEnglish(Tail(rows))

Returned(v) == [kind |-> "return", value |-> v]
Raised      == [kind |-> "raise",  value |-> None]

\* lines 89-98: tag the article found with the day's string.
TagArticle(found_article, day_str) ==
    IF found_article # None
    THEN <<[url        |-> found_article[1].url,
            language   |-> found_article[1].language,
            query_date |-> day_str]>>
    ELSE None

\* process_day tagging the article with next_day_str (line 56) instead of day_str.
process_dayNextDay(current_date, resp) ==
    LET next_day_str == strftime(current_date + 1)
    IN  IF resp.kind = "raise" THEN Returned(None)
        ELSE IF resp.kind = "malformed" THEN Raised
        ELSE Returned(TagArticle(FirstEnglish(resp.rows), next_day_str))

\* process_day(current_date) when the provider answers resp: what the task's
\* future ends up holding.
process_day(current_date, resp) ==
    LET day_str == strftime(current_date)
    IN  IF resp.kind = "raise" THEN Returned(None)
        ELSE IF resp.kind = "malformed" THEN Raised
        ELSE Returned(TagArticle(FirstEnglish(resp.rows), day_str))

\* -------------------------------------------------------------------- state
VARIABLES
    start_date, end_date,   \* the range of main(), as ordinals
    dates,                  \* the list built by lines 107-111
    daily_articles,         \* the list of results of main()
    pc,                     \* where the main thread is
    exc,                    \* what was raised in the try block: "none" if nothing
    next_day,               \* index in dates of the next day to submit
    state,                  \* state[d]: the future of day d
    outcome,                \* outcome[d]: what the finished future of d holds
    yielded,                \* the futures as_completed has handed out
    future,                 \* the future the for loop is processing, <<d>> or None
    work_queue,             \* the executor's queue of work items
    threads,                \* the worker threads the executor has started
    filename,               \* the file save_articles is writing
    files,                  \* the content of the two checkpoint files
    runs,                   \* history: how often process_day ran for each day
    flush_calls,            \* history: the calls of save_articles
    snapshots,              \* history: the snapshots completely written, each
                            \* with the number of the save_articles call that wrote it
    at_interrupt,           \* history: what held when the interruption arrived
    appended_from,          \* history: the day of the future each result came from
    failed                  \* history: the days whose process_day met an error

vars == <<start_date, end_date, dates, daily_articles, pc, exc, next_day, state,
          outcome, yielded, future, work_queue, threads, filename, files, runs,
          flush_calls, snapshots, at_interrupt, appended_from, failed>>

\* The sequential crawler run (src/other/crawler.py): main() walks the days of
\* [start_date, end_date), asks get_candidate_articles for the day's candidates
\* and choose_best_article for the one closest to the day.
VARIABLES
    c_start_date, c_end_date,  \* start_date and end_date of the crawler's main()
    c_current_date,            \* the day cursor; the target_date of the selection
    results,                   \* the list of results of the crawler's main()
    cpc,                       \* where the crawler is
    candidate_list,            \* the candidates list of get_candidate_articles,
                               \* then the candidate_list of main()
    ei,                        \* how many <article> elements the for loop of line 85 has taken
    ci,                        \* how many candidates the for loop of line 130 has taken
    best_diff, best_data,      \* the locals of choose_best_article
    chosen,                    \* what choose_best_article returned
    scored,                    \* history: per candidate taken, what was fetched and computed
    visited                    \* history: the days the while loop of line 176 has finished

cvars == <<c_start_date, c_end_date, c_current_date, results, cpc, candidate_list,
           ei, ci, best_diff, best_data, chosen, scored, visited>>

\* One call of process_day (src/other/GDELT.py) on its own.
VARIABLES
    p_date,                    \* the current_date the task is called with
    p_resp,                    \* what gd.article_search answers for the day
    p_result,                  \* what the call ended with, None before it ends
    ppc                        \* "idle", "call" or "returned"

pvars == <<p_date, p_resp, p_result, ppc>>

\* The sentiment pipeline (src/result /textAnalyzer.py, then
\* src/result /combine.py): every article gets a label from its compound
\* score, then the scores are averaged and labelled per day.
VARIABLES
    s_articles,                \* the articles: query_date, compound score, label
    s_i,                       \* how many articles the loop of textAnalyzer.py:71 has taken
    aggregated,                \* what aggregate_sentiments returned, None before it ends
    spc                        \* "idle", "analyze", "aggregate" or "end"

svars == <<s_articles, s_i, aggregated, spc>>

allvars == <<vars, cvars, pvars, svars>>

DayTaskIdle ==
    /\ p_date = 0
    /\ p_resp = None
    /\ p_result = None
    /\ ppc = "idle"

SentimentIdle ==
    /\ s_articles = << >>
    /\ s_i = 0
    /\ aggregated = None
    /\ spc = "idle"


\* --------------------------------------------------------------------- main
PartialFile == "daily_english_articles_partial.json"
FinalFile   == "daily_english_articles save.json"

NoFile == [exists |-> FALSE, data |-> << >>, complete |-> FALSE]

\* Dates with the loop condition written current_date < end_date.
RECURSIVE DatesExclusive(_, _)
DatesExclusive(current_date, end) ==
    IF current_date < end
    THEN <<current_date>> \o DatesExclusive(current_date + 1, end)
    ELSE << >>

\* lines 107-111: the days from current_date to end_date, both included.
RECURSIVE Dates(_, _)
Dates(current_date, end) ==
    IF current_date <= end
    THEN <<current_date>> \o Dates(current_date + 1, end)
    ELSE << >>

Range(s) == {s[k] : k \in DOMAIN s}

Days == Range(dates)

Running == {d \in Days : state[d] = "running"}

SchedulerInit ==
    /\ start_date = strptime(<<2019, 4, 17>>)
    /\ end_date \in start_date .. (start_date + MaxDays - 1)
    /\ dates = Dates(start_date, end_date)
    /\ daily_articles = << >>
    /\ pc = "submit"
    /\ exc = "none"
    /\ next_day = 1
    /\ state = [d \in Range(dates) |-> "none"]
    /\ outcome = [d \in Range(dates) |-> Returned(None)]
    /\ yielded = {}
    /\ future = None
    /\ work_queue = << >>
    /\ threads = 0
    /\ filename = PartialFile
    /\ files = [f \in {PartialFile, FinalFile} |-> NoFile]
    /\ runs = [d \in Range(dates) |-> 0]
    /\ flush_calls = << >>
    /\ snapshots = << >>
    /\ at_interrupt = [seen |-> FALSE, produced |-> {}, articles |-> << >>]
    /\ appended_from = << >>
    /\ failed = {}

\* AdjustThreadCount without the max_workers test.
AdjustThreadCountUnbounded(n) == n + 1

\* ThreadPoolExecutor._adjust_thread_count: a submit starts one more worker
\* thread unless max_workers threads exist already.
AdjustThreadCount(n) == IF n < max_workers THEN n + 1 ELSE n

\* lines 119-121, one turn of the comprehension: executor.submit(process_day, day).
Submit ==
    /\ pc = "submit"
    /\ next_day <= Len(dates)
    /\ state' = [state EXCEPT ![dates[next_day]] = "pending"]
    /\ work_queue' = Append(work_queue, dates[next_day])
    /\ threads' = AdjustThreadCount(threads)
    /\ next_day' = next_day + 1
    /\ UNCHANGED <<start_date, end_date, dates, daily_articles, pc, exc, outcome,
                   yielded, future, filename, files, runs, flush_calls, snapshots,
                   at_interrupt, appended_from, failed>>
    /\ UNCHANGED <<cvars, pvars, svars>>

\* lines 119-121: executor.submit raises (the work item is queued, then the
\* worker thread cannot be started); the exception leaves the with block.
SubmitError ==
    /\ pc = "submit"
    /\ next_day <= Len(dates)
    /\ threads < max_workers
    /\ state' = [state EXCEPT ![dates[next_day]] = "pending"]
    /\ work_queue' = Append(work_queue, dates[next_day])
    /\ exc' = "Exception"
    /\ pc' = "shutdown"
    /\ UNCHANGED <<start_date, end_date, dates, daily_articles, next_day, outcome,
                   yielded, future, threads, filename, files, runs, flush_calls,
                   snapshots, at_interrupt, appended_from, failed>>
    /\ UNCHANGED <<cvars, pvars, svars>>

\* line 122: every day is submitted, the for loop over as_completed starts.
Submitted ==
    /\ pc = "submit"
    /\ next_day > Len(dates)
    /\ pc' = "as_completed"
    /\ UNCHANGED <<start_date, end_date, dates, daily_articles, exc, next_day,
                   state, outcome, yielded, future, work_queue, threads, filename,
                   files, runs, flush_calls, snapshots, at_interrupt, appended_from, failed>>
    /\ UNCHANGED <<cvars, pvars, svars>>

\* WorkerStart with a worker thread that ends after its first work item
\* instead of going back to the queue.
WorkerStartOnce ==
    /\ work_queue # << >>
    /\ Cardinality({d \in Days : state[d] \in {"running", "finished"}}) < threads
    /\ state' = [state EXCEPT ![Head(work_queue)] = "running"]
    /\ runs' = [runs EXCEPT ![Head(work_queue)] = @ + 1]
    /\ work_queue' = Tail(work_queue)
    /\ UNCHANGED <<start_date, end_date, dates, daily_articles, pc, exc, next_day,
                   outcome, yielded, future, threads, filename, files, flush_calls,
                   snapshots, at_interrupt, appended_from, failed>>
    /\ UNCHANGED <<cvars, pvars, svars>>

\* A worker thread of the executor takes the oldest work item and starts
\* process_day for it.
WorkerStart ==
    /\ work_queue # << >>
    /\ Cardinality(Running) < threads
    /\ state' = [state EXCEPT ![Head(work_queue)] = "running"]
    /\ runs' = [runs EXCEPT ![Head(work_queue)] = @ + 1]
    /\ work_queue' = Tail(work_queue)
    /\ UNCHANGED <<start_date, end_date, dates, daily_articles, pc, exc, next_day,
                   outcome, yielded, future, threads, filename, files, flush_calls,
                   snapshots, at_interrupt, appended_from, failed>>
    /\ UNCHANGED <<cvars, pvars, svars>>

\* WorkerFinish with process_day appending its article to the shared list
\* itself, from the worker thread.
WorkerFinishAppends(d) ==
    /\ state[d] = "running"
    /\ \E resp \in Responses :
          /\ outcome' = [outcome EXCEPT ![d] = process_day(d, resp)]
          /\ failed' = IF resp.kind \in {"raise", "malformed"}
                       THEN failed \cup {d} ELSE failed
          /\ daily_articles' = daily_articles \o process_day(d, resp).value
    /\ state' = [state EXCEPT ![d] = "finished"]
    /\ UNCHANGED <<start_date, end_date, dates, pc, exc, next_day,
                   yielded, future, work_queue, threads, filename, files, runs,
                   flush_calls, snapshots, at_interrupt, appended_from>>
    /\ UNCHANGED <<cvars, pvars, svars>>

\* lines 49-98 in a worker thread: process_day returns or raises, and the
\* future of the day is finished with that.
WorkerFinish(d) ==
    /\ state[d] = "running"
    /\ \E resp \in Responses :
          /\ outcome' = [outcome EXCEPT ![d] = process_day(d, resp)]
          /\ failed' = IF resp.kind \in {"raise", "malformed"}
                       THEN failed \cup {d} ELSE failed
    /\ state' = [state EXCEPT ![d] = "finished"]
    /\ UNCHANGED <<start_date, end_date, dates, daily_articles, pc, exc, next_day,
                   yielded, future, work_queue, threads, filename, files, runs,
                   flush_calls, snapshots, at_interrupt, appended_from>>
    /\ UNCHANGED <<cvars, pvars, svars>>

\* Yield with the list of line 113 created inside the for loop.
YieldFreshList(d) ==
    /\ pc = "as_completed"
    /\ state[d] = "finished"
    /\ d \notin yielded
    /\ yielded' = yielded \cup {d}
    /\ future' = <<d>>
    /\ daily_articles' = << >>
    /\ pc' = "result"
    /\ UNCHANGED <<start_date, end_date, dates, exc, next_day, state, outcome,
                   work_queue, threads, filename, files, runs, flush_calls,
                   snapshots, at_interrupt, appended_from, failed>>
    /\ UNCHANGED <<cvars, pvars, svars>>

\* lines 122-123: as_completed hands out a finished future not handed out yet.
Yield(d) ==
    /\ pc = "as_completed"
    /\ state[d] = "finished"
    /\ d \notin yielded
    /\ yielded' = yielded \cup {d}
    /\ future' = <<d>>
    /\ pc' = "result"
    /\ UNCHANGED <<start_date, end_date, dates, daily_articles, exc, next_day,
                   state, outcome, work_queue, threads, filename, files, runs,
                   flush_calls, snapshots, at_interrupt, appended_from, failed>>
    /\ UNCHANGED <<cvars, pvars, svars>>

\* LoopEnd with the for loop left after the first future.
LoopEndEarly ==
    /\ pc = "as_completed"
    /\ yielded # {}
    /\ pc' = "shutdown"
    /\ UNCHANGED <<start_date, end_date, dates, daily_articles, exc, next_day,
                   state, outcome, yielded, future, work_queue, threads, filename,
                   files, runs, flush_calls, snapshots, at_interrupt, appended_from, failed>>
    /\ UNCHANGED <<cvars, pvars, svars>>

\* line 122: as_completed is exhausted, the with block is left.
LoopEnd ==
    /\ pc = "as_completed"
    /\ yielded = Days
    /\ pc' = "shutdown"
    /\ UNCHANGED <<start_date, end_date, dates, daily_articles, exc, next_day,
                   state, outcome, yielded, future, work_queue, threads, filename,
                   files, runs, flush_calls, snapshots, at_interrupt, appended_from, failed>>
    /\ UNCHANGED <<cvars, pvars, svars>>

\* Result without the call of save_articles of lines 129-132.
ResultNoSave ==
    /\ pc = "result"
    /\ LET o == outcome[future[1]] IN
         IF o.kind = "return" /\ o.value # None
         THEN /\ daily_articles' = Append(daily_articles, o.value[1])
              /\ appended_from' = Append(appended_from, future[1])
         ELSE UNCHANGED <<daily_articles, appended_from>>
    /\ pc' = "as_completed"
    /\ UNCHANGED <<start_date, end_date, dates, exc, next_day, state, outcome,
                   yielded, future, work_queue, threads, filename, files, runs,
                   flush_calls, snapshots, at_interrupt, failed>>
    /\ UNCHANGED <<cvars, pvars, svars>>

\* Result without the try/except of lines 124 and 133: what the task raised
\* leaves the for loop and the with block.
ResultPropagates ==
    /\ pc = "result"
    /\ LET o == outcome[future[1]] IN
         IF o.kind = "raise"
         THEN /\ exc' = "Exception"
              /\ pc' = "shutdown"
              /\ UNCHANGED <<daily_articles, flush_calls, filename, appended_from>>
         ELSE IF o.value # None
         THEN /\ daily_articles' = Append(daily_articles, o.value[1])
              /\ flush_calls' = Append(flush_calls,
                     [filename |-> PartialFile, articles |-> daily_articles'])
              /\ appended_from' = Append(appended_from, future[1])
              /\ filename' = PartialFile
              /\ pc' = "save_open"
              /\ exc' = exc
         ELSE /\ pc' = "as_completed"
              /\ UNCHANGED <<daily_articles, flush_calls, filename, appended_from, exc>>
    /\ UNCHANGED <<start_date, end_date, dates, next_day, state, outcome,
                   yielded, future, work_queue, threads, files, runs, snapshots,
                   at_interrupt, failed>>
    /\ UNCHANGED <<cvars, pvars, svars>>

\* Result with the article inserted at the head of the list (line 127).
ResultPrepends ==
    /\ pc = "result"
    /\ LET o == outcome[future[1]] IN
         IF o.kind = "return" /\ o.value # None
         THEN /\ daily_articles' = <<o.value[1]>> \o daily_articles
              /\ flush_calls' = Append(flush_calls,
                     [filename |-> PartialFile, articles |-> daily_articles'])
              /\ appended_from' = <<future[1]>> \o appended_from
              /\ filename' = PartialFile
              /\ pc' = "save_open"
         ELSE /\ pc' = "as_completed"
              /\ UNCHANGED <<daily_articles, flush_calls, filename, appended_from>>
    /\ UNCHANGED <<start_date, end_date, dates, exc, next_day, state, outcome,
                   yielded, future, work_queue, threads, files, runs, snapshots,
                   at_interrupt, failed>>
    /\ UNCHANGED <<cvars, pvars, svars>>

\* lines 124-134 up to the call of save_articles: future.result() raises what
\* the task raised (caught at line 133), or returns None, or returns the
\* article, which is appended before save_articles is called.
Result ==
    /\ pc = "result"
    /\ LET o == outcome[future[1]] IN
         IF o.kind = "return" /\ o.value # None
         THEN /\ daily_articles' = Append(daily_articles, o.value[1])
              /\ flush_calls' = Append(flush_calls,
                     [filename |-> PartialFile, articles |-> daily_articles'])
              /\ appended_from' = Append(appended_from, future[1])
              /\ filename' = PartialFile
              /\ pc' = "save_open"
         ELSE /\ pc' = "as_completed"
              /\ UNCHANGED <<daily_articles, flush_calls, filename, appended_from>>
    /\ UNCHANGED <<start_date, end_date, dates, exc, next_day, state, outcome,
                   yielded, future, work_queue, threads, files, runs, snapshots,
                   at_interrupt, failed>>
    /\ UNCHANGED <<cvars, pvars, svars>>


\* --------------------------------------------------------- save_articles
\* line 44: open(filename, "w") creates or truncates the file.
SaveOpen ==
    /\ pc = "save_open"
    /\ files' = [files EXCEPT ![filename] =
                    [exists |-> TRUE, data |-> << >>, complete |-> FALSE]]
    /\ pc' = "save_write"
    /\ UNCHANGED <<start_date, end_date, dates, daily_articles, exc, next_day,
                   state, outcome, yielded, future, work_queue, threads, filename,
                   runs, flush_calls, snapshots, at_interrupt, appended_from, failed>>
    /\ UNCHANGED <<cvars, pvars, svars>>

\* line 45: json.dump writes the list piece by piece, here one article at a time.
SaveWrite ==
    /\ pc = "save_write"
    /\ Len(files[filename].data) < Len(daily_articles)
    /\ files' = [files EXCEPT ![filename].data =
                    Append(@, daily_articles[Len(@) + 1])]
    /\ UNCHANGED <<start_date, end_date, dates, daily_articles, pc, exc, next_day,
                   state, outcome, yielded, future, work_queue, threads, filename,
                   runs, flush_calls, snapshots, at_interrupt, appended_from, failed>>
    /\ UNCHANGED <<cvars, pvars, svars>>

\* Where save_articles returns to: the for loop (line 122) or the end of main.
AfterSave(f) == IF f = PartialFile THEN "as_completed" ELSE "done"

\* lines 45-46: the last piece is written and the with statement closes the file.
SaveClose ==
    /\ pc = "save_write"
    /\ Len(files[filename].data) = Len(daily_articles)
    /\ files' = [files EXCEPT ![filename].complete = TRUE]
    /\ snapshots' = Append(snapshots,
                       [filename |-> filename, articles |-> files[filename].data,
                        call |-> Len(flush_calls)])
    /\ pc' = AfterSave(filename)
    /\ UNCHANGED <<start_date, end_date, dates, daily_articles, exc, next_day,
                   state, outcome, yielded, future, work_queue, threads, filename,
                   runs, flush_calls, at_interrupt, appended_from, failed>>
    /\ UNCHANGED <<cvars, pvars, svars>>

\* SaveFail with the except clause of line 133 taking the last result back.
SaveFailRollsBack ==
    /\ pc \in {"save_open", "save_write"}
    /\ pc' = IF filename = PartialFile THEN "as_completed" ELSE "crashed"
    /\ daily_articles' = IF filename = PartialFile
                         THEN SubSeq(daily_articles, 1, Len(daily_articles) - 1)
                         ELSE daily_articles
    /\ UNCHANGED <<start_date, end_date, dates, exc, next_day,
                   state, outcome, yielded, future, work_queue, threads, filename,
                   files, runs, flush_calls, snapshots, at_interrupt, appended_from, failed>>
    /\ UNCHANGED <<cvars, pvars, svars>>

\* lines 44-45 raise (the file cannot be opened, the disk is full): in the for
\* loop the exception is caught at line 133, in the finally clause it leaves main.
SaveFail ==
    /\ pc \in {"save_open", "save_write"}
    /\ pc' = IF filename = PartialFile THEN "as_completed" ELSE "crashed"
    /\ UNCHANGED <<start_date, end_date, dates, daily_articles, exc, next_day,
                   state, outcome, yielded, future, work_queue, threads, filename,
                   files, runs, flush_calls, snapshots, at_interrupt, appended_from, failed>>
    /\ UNCHANGED <<cvars, pvars, svars>>

\* ------------------------------------------------ leaving the try statement
Article(d) == outcome[d].kind = "return" /\ outcome[d].value # None

\* The statements of lines 116-134, where the main thread can be when the
\* operator's signal arrives.
InTry ==
    \/ pc \in {"submit", "as_completed", "result", "shutdown"}
    \/ pc \in {"save_open", "save_write"} /\ filename = PartialFile

\* KeyboardInterrupt is raised in the main thread inside the try statement:
\* no except clause of lines 124-134 catches it, the with block is left.
Interrupt ==
    /\ InTry
    /\ exc = "none"
    /\ exc' = "KeyboardInterrupt"
    /\ pc' = "shutdown"
    /\ at_interrupt' = [seen     |-> TRUE,
                        produced |-> {d \in Days : state[d] = "finished" /\ Article(d)},
                        articles |-> daily_articles]
    /\ UNCHANGED <<start_date, end_date, dates, daily_articles, next_day, state,
                   outcome, yielded, future, work_queue, threads, filename, files,
                   runs, flush_calls, snapshots, appended_from, failed>>
    /\ UNCHANGED <<cvars, pvars, svars>>

\* ExitWith collecting, once the workers have ended, the article of a finished
\* future that the for loop never processed.
ExitWithCollects ==
    /\ pc = "shutdown"
    /\ Running = {}
    /\ work_queue = << >> \/ threads = 0
    /\ pc' = IF exc = "none" THEN "finally" ELSE "except"
    /\ LET left == {d \in Days : /\ state[d] = "finished"
                                 /\ Article(d)
                                 /\ d \notin Range(appended_from)}
       IN  IF left # {}
           THEN LET d == CHOOSE x \in left : TRUE
                IN  /\ daily_articles' = Append(daily_articles, outcome[d].value[1])
                    /\ appended_from' = Append(appended_from, d)
           ELSE UNCHANGED <<daily_articles, appended_from>>
    /\ UNCHANGED <<start_date, end_date, dates, exc, next_day,
                   state, outcome, yielded, future, work_queue, threads, filename,
                   files, runs, flush_calls, snapshots, at_interrupt, failed>>
    /\ UNCHANGED <<cvars, pvars, svars>>

\* line 117, the end of the with block: executor.shutdown(wait=True) returns
\* once every worker thread has ended, which a worker does when the queue is
\* empty; then the exception, if any, reaches the except clauses.
ExitWith ==
    /\ pc = "shutdown"
    /\ Running = {}
    /\ work_queue = << >> \/ threads = 0
    /\ pc' = IF exc = "none" THEN "finally" ELSE "except"
    /\ UNCHANGED <<start_date, end_date, dates, daily_articles, exc, next_day,
                   state, outcome, yielded, future, work_queue, threads, filename,
                   files, runs, flush_calls, snapshots, at_interrupt, appended_from, failed>>
    /\ UNCHANGED <<cvars, pvars, svars>>

\* Handler with the last save placed after the try statement's normal end
\* only, so that an except clause ends main.
HandlerSkipsFinally ==
    /\ pc = "except"
    /\ pc' = "done"
    /\ UNCHANGED <<start_date, end_date, dates, daily_articles, exc, next_day,
                   state, outcome, yielded, future, work_queue, threads, filename,
                   files, runs, flush_calls, snapshots, at_interrupt, appended_from,
                   failed>>
    /\ UNCHANGED <<cvars, pvars, svars>>

\* lines 135-138: either except clause prints and falls through to finally.
Handler ==
    /\ pc = "except"
    /\ pc' = "finally"
    /\ UNCHANGED <<start_date, end_date, dates, daily_articles, exc, next_day,
                   state, outcome, yielded, future, work_queue, threads, filename,
                   files, runs, flush_calls, snapshots, at_interrupt, appended_from, failed>>
    /\ UNCHANGED <<cvars, pvars, svars>>

\* lines 139-141: the finally clause calls save_articles(daily_articles).
Finally ==
    /\ pc = "finally"
    /\ flush_calls' = Append(flush_calls,
                        [filename |-> FinalFile, articles |-> daily_articles])
    /\ filename' = FinalFile
    /\ pc' = "save_open"
    /\ UNCHANGED <<start_date, end_date, dates, daily_articles, exc, next_day,
                   state, outcome, yielded, future, work_queue, threads, files,
                   runs, snapshots, at_interrupt, appended_from, failed>>
    /\ UNCHANGED <<cvars, pvars, svars>>

\* ------------------------------------------------------------ crawler.py
\* The count given to get_candidate_articles (6 at crawler.py:181), scaled down.
count == 2
\* The most <article> elements of a search page that are explored.
MaxElems == 3
\* The longest candidate list given to choose_best_article on its own.
MaxCands == 3
\* The days of the crawler's range (7 * 365 at crawler.py:172), scaled down.
CrawlDays == 2

\* A float that is float("inf") or a whole number of days.
Inf == [inf |-> TRUE, days |-> 0]
Finite(n) == [inf |-> FALSE, days |-> n]

\* a < b on such floats: nothing is below itself, inf included.
FloatLess(a, b) == ~a.inf /\ (b.inf \/ a.days < b.days)

Abs(n) == IF n < 0 THEN 0 - n ELSE n

\* not x, negated: a value that is neither None nor the empty string.
Truthy(x) == x # None /\ x # <<"">>

\* lines 94-96: an href is written <<head, rest>>; one that starts with "./"
\* is made absolute.
ResolveHref(href) ==
    IF href[1] = "./" THEN <<"https://news.google.com/", href[2]>> ELSE href

\* lines 86-99: one turn of the for loop over the <article> elements of the
\* page. An element is [time, href]: the date parse_date_from_string read from
\* its <time> tag (None without a tag or a readable date) and the href of its
\* first anchor (None without one).
AddCandidate(candidates, article) ==
    LET candidate == [url            |-> ResolveHref(article.href[1]),
                      candidate_date |-> article.time]
    IN  IF article.href # None /\ candidate \notin Range(candidates)
        THEN Append(candidates, candidate)
        ELSE candidates

\* lines 136-141: the date of the listing, else the date part of publish_date.
EffectiveDatePubFirst(candidate_date, pub_date) ==
    IF pub_date # None THEN <<pub_date[1].day>> ELSE candidate_date

EffectiveDate(candidate_date, pub_date) ==
    IF candidate_date = None /\ pub_date # None
    THEN IF pub_date[1].type = "datetime" THEN <<pub_date[1].day>>
         ELSE IF pub_date[1].type = "date" THEN <<pub_date[1].day>>
         ELSE candidate_date
    ELSE candidate_date

\* lines 143-146.
Diff(candidate_date, target_date) ==
    IF candidate_date # None
    THEN Finite(Abs(candidate_date[1] - target_date))
    ELSE Inf

\* line 133 negated: the candidate has a title and a text.
UsableTitleOnly(f) == Truthy(f.title)

Usable(f) == Truthy(f.title) /\ Truthy(f.text)

\* Line 151 written as a break that leaves best_data to line 156.
ReturnOnExactStale(data, best) == IF best # None THEN best[1] ELSE data

\* line 151: what is returned for a candidate whose diff is 0.
ReturnOnExact(data, best) == data

\* line 159.
NoArticle == [title |-> None, content |-> None, url |-> None, candidate_date |-> None]

\* What get_article_data(url) can return (lines 111-118): the download failed,
\* or a title with an empty text, or title and text with no publish date, with
\* a datetime or with a date.
Fetched(title, text, pub) == [title |-> title, text |-> text, publish_date |-> pub]

Fetches(target_date) ==
    { Fetched(None, None, None),
      Fetched(<<"title">>, <<"">>, None),
      Fetched(<<"title">>, <<"text">>, None),
      Fetched(<<"title">>, <<"text">>,
              <<[type |-> "datetime", day |-> target_date, hour |-> 13]>>),
      Fetched(<<"title">>, <<"text">>,
              <<[type |-> "date", day |-> target_date + 1, hour |-> 0]>>) }

\* The <article> elements a search page of a day is made of: with or without
\* a date, with or without an anchor.
Hrefs == { <<"./", 1>>, <<"https://news.google.com/", 1>>, <<"https://example.com/", 2>> }

Elements(target_date) ==
    { [time |-> t, href |-> h] :
         t \in {None, <<target_date>>},
         h \in {None} \cup {<<x>> : x \in Hrefs} }

\* date.today() of line 171.
Today == strptime(<<2019, 3, 2>>)

\* lines 45-59: the query "dd.mm.yyyy keyword" of a day.
get_google_news_query(date, keyword) ==
    LET ymd == strftime(date) IN <<ymd[3], ymd[2], ymd[1], keyword>>

CrawlerIdle ==
    /\ c_start_date = Today
    /\ c_end_date = Today
    /\ c_current_date = Today
    /\ results = << >>
    /\ cpc = "idle"
    /\ candidate_list = << >>
    /\ ei = 0
    /\ ci = 0
    /\ best_diff = Inf
    /\ best_data = None
    /\ chosen = NoArticle
    /\ scored = << >>
    /\ visited = << >>

\* The scheduler of GDELT.py before its first step; the crawler runs alone.
SchedulerIdle == SchedulerInit /\ end_date = start_date

\* lines 170-175: the crawler's main() up to its while loop.
CrawlInit ==
    /\ SchedulerIdle
    /\ DayTaskIdle
    /\ SentimentIdle
    /\ c_end_date = Today
    /\ c_start_date \in (Today - CrawlDays) .. Today
    /\ c_current_date = c_start_date
    /\ results = << >>
    /\ cpc = "loop"
    /\ candidate_list = << >>
    /\ ei = 0
    /\ ci = 0
    /\ best_diff = Inf
    /\ best_data = None
    /\ chosen = NoArticle
    /\ scored = << >>
    /\ visited = << >>

\* lines 176-181 and 70-84: a turn of the while loop starts and
\* get_candidate_articles loads the search page, or fails to (lines 79-81).
PageLoad ==
    /\ cpc = "loop"
    /\ c_current_date < c_end_date
    /\ candidate_list' = << >>
    /\ ei' = 0
    /\ \E loaded \in BOOLEAN : cpc' = IF loaded THEN "collect" ELSE "collected"
    /\ UNCHANGED <<c_start_date, c_end_date, c_current_date, results, ci, best_diff,
                   best_data, chosen, scored, visited>>
    /\ UNCHANGED <<vars, pvars, svars>>

\* lines 85-101: one turn of the for loop over the <article> elements.
CollectStep ==
    /\ cpc = "collect"
    /\ ei < MaxElems
    /\ ei' = ei + 1
    /\ \E article \in Elements(c_current_date) :
          /\ candidate_list' = AddCandidate(candidate_list, article)
          /\ cpc' = IF Len(candidate_list') >= count THEN "collected" ELSE "collect"
    /\ UNCHANGED <<c_start_date, c_end_date, c_current_date, results, ci, best_diff,
                   best_data, chosen, scored, visited>>
    /\ UNCHANGED <<vars, pvars, svars>>

\* lines 85 and 102: the page has no further <article> element.
CollectEnd ==
    /\ cpc = "collect"
    /\ cpc' = "collected"
    /\ UNCHANGED <<c_start_date, c_end_date, c_current_date, results, candidate_list,
                   ei, ci, best_diff, best_data, chosen, scored, visited>>
    /\ UNCHANGED <<vars, pvars, svars>>

\* NoCandidates with the continue of line 186 reached before the day cursor
\* is moved.
NoCandidatesStays ==
    /\ cpc = "collected"
    /\ candidate_list = << >>
    /\ cpc' = "loop"
    /\ UNCHANGED <<c_start_date, c_end_date, c_current_date, results, candidate_list,
                   ei, ci, best_diff, best_data, chosen, scored, visited>>
    /\ UNCHANGED <<vars, pvars, svars>>

\* lines 182-186: no candidate, the day is over.
NoCandidates ==
    /\ cpc = "collected"
    /\ candidate_list = << >>
    /\ c_current_date' = c_current_date + 1
    /\ visited' = Append(visited, c_current_date)
    /\ cpc' = "loop"
    /\ UNCHANGED <<c_start_date, c_end_date, results, candidate_list, ei, ci,
                   best_diff, best_data, chosen, scored>>
    /\ UNCHANGED <<vars, pvars, svars>>

\* lines 188 and 127-128: choose_best_article is called.
ChooseStart ==
    /\ cpc = "collected"
    /\ candidate_list # << >>
    /\ ci' = 0
    /\ best_diff' = Inf
    /\ best_data' = None
    /\ scored' = << >>
    /\ cpc' = "choose"
    /\ UNCHANGED <<c_start_date, c_end_date, c_current_date, results, candidate_list,
                   ei, chosen, visited>>
    /\ UNCHANGED <<vars, pvars, svars>>

\* lines 130-154: one turn of the for loop of choose_best_article, with what
\* get_article_data returns for the candidate.
ChooseStep ==
    /\ cpc = "choose"
    /\ ci < Len(candidate_list)
    /\ ci' = ci + 1
    /\ \E f \in Fetches(c_current_date) :
          LET candidate      == candidate_list[ci + 1]
              candidate_date == EffectiveDate(candidate.candidate_date, f.publish_date)
              diff           == Diff(candidate_date, c_current_date)
              data           == [title |-> f.title, content |-> f.text,
                                 url |-> <<candidate.url>>,
                                 candidate_date |-> candidate_date]
          IN  IF ~Usable(f)
              THEN /\ scored' = Append(scored, [usable |-> FALSE, fetched |-> f,
                                   candidate_date |-> None, diff |-> Inf])
                   /\ UNCHANGED <<cpc, chosen, best_diff, best_data>>
              ELSE /\ scored' = Append(scored, [usable |-> TRUE, fetched |-> f,
                                   candidate_date |-> candidate_date, diff |-> diff])
                   /\ IF diff = Finite(0)
                      THEN /\ chosen' = ReturnOnExact(data, best_data)
                           /\ cpc' = "chosen"
                           /\ UNCHANGED <<best_diff, best_data>>
                      ELSE IF FloatLess(diff, best_diff)
                      THEN /\ best_diff' = diff
                           /\ best_data' = <<data>>
                           /\ UNCHANGED <<cpc, chosen>>
                      ELSE UNCHANGED <<cpc, chosen, best_diff, best_data>>
    /\ UNCHANGED <<c_start_date, c_end_date, c_current_date, results, candidate_list,
                   ei, visited>>
    /\ UNCHANGED <<vars, pvars, svars>>

\* lines 156-159: the for loop is over without an exact match.
ChooseEnd ==
    /\ cpc = "choose"
    /\ ci = Len(candidate_list)
    /\ chosen' = IF best_data # None THEN best_data[1] ELSE NoArticle
    /\ cpc' = "chosen"
    /\ UNCHANGED <<c_start_date, c_end_date, c_current_date, results, candidate_list,
                   ei, ci, best_diff, best_data, scored, visited>>
    /\ UNCHANGED <<vars, pvars, svars>>

\* lines 191-210: the result is appended if there is content, and the day
\* cursor moves on.
AppendAdvance ==
    /\ cpc = "chosen"
    /\ results' =
          IF Truthy(chosen.content)
          THEN Append(results,
                  [date         |-> strftime(c_current_date),
                   search_query |-> get_google_news_query(c_current_date, "apple"),
                   title        |-> chosen.title[1],
                   url          |-> chosen.url[1],
                   publish_date |-> IF chosen.candidate_date # None
                                    THEN <<strftime(chosen.candidate_date[1])>>
                                    ELSE None,
                   content      |-> chosen.content[1]])
          ELSE results
    /\ c_current_date' = c_current_date + 1
    /\ visited' = Append(visited, c_current_date)
    /\ cpc' = "loop"
    /\ UNCHANGED <<c_start_date, c_end_date, candidate_list, ei, ci, best_diff,
                   best_data, chosen, scored>>
    /\ UNCHANGED <<vars, pvars, svars>>

\* lines 176 and 212-214: the while loop is over.
CrawlEnd ==
    /\ cpc = "loop"
    /\ c_current_date >= c_end_date
    /\ cpc' = "end"
    /\ UNCHANGED <<c_start_date, c_end_date, c_current_date, results, candidate_list,
                   ei, ci, best_diff, best_data, chosen, scored, visited>>
    /\ UNCHANGED <<vars, pvars, svars>>

CrawlNext ==
    \/ PageLoad
    \/ CollectStep
    \/ CollectEnd
    \/ NoCandidates
    \/ ChooseStart
    \/ ChooseStep
    \/ ChooseEnd
    \/ AppendAdvance
    \/ CrawlEnd

SpecCrawl == CrawlInit /\ [][CrawlNext]_allvars

\* The crawler is one sequential thread: it takes its next step whenever it
\* has one.
SpecCrawlLive ==
    /\ CrawlInit
    /\ [][CrawlNext]_allvars
    /\ WF_allvars(CrawlNext)

\* choose_best_article(candidates, target_date) on its own: the candidates are
\* up to MaxCands listings with different URLs, each with no date or a date
\* around the target day.
ApproxDates(target_date) ==
    {None, <<target_date>>, <<target_date - 1>>, <<target_date + 1>>,
     <<target_date + 2>>}

CandidateLists(target_date) ==
    { [k \in DOMAIN a |-> [url |-> <<"https://example.com/", k>>,
                           candidate_date |-> a[k]]] :
         a \in UNION {[1 .. n -> ApproxDates(target_date)] : n \in 1 .. MaxCands} }

SelectInit ==
    /\ SchedulerIdle
    /\ DayTaskIdle
    /\ SentimentIdle
    /\ c_end_date = Today
    /\ c_start_date = Today - 1
    /\ c_current_date = c_start_date
    /\ results = << >>
    /\ cpc = "choose"
    /\ candidate_list \in CandidateLists(c_current_date)
    /\ ei = 0
    /\ ci = 0
    /\ best_diff = Inf
    /\ best_data = None
    /\ chosen = NoArticle
    /\ scored = << >>
    /\ visited = << >>

SelectNext ==
    \/ ChooseStep
    \/ ChooseEnd

SpecSelect == SelectInit /\ [][SelectNext]_allvars

\* lines 142-146: what the process reports and exits with once main has ended.
\* main returns None after the finally clause, whatever happened in the try
\* statement, so the interpreter exits with 0; an exception leaving main (a
\* failed last save) ends it with 1 before line 142.
ExitStatus == IF pc = "crashed" THEN 1 ELSE 0

CompletionReport ==
    IF pc = "done" THEN <<"Finished processing all dates.">> ELSE None

Next ==
    \/ Submit
    \/ SubmitError
    \/ Submitted
    \/ WorkerStart
    \/ \E d \in Days : WorkerFinish(d)
    \/ \E d \in Days : Yield(d)
    \/ LoopEnd
    \/ Result
    \/ SaveOpen
    \/ SaveWrite
    \/ SaveClose
    \/ SaveFail
    \/ Interrupt
    \/ ExitWith
    \/ Handler
    \/ Finally

\* GDELT.py runs alone; the crawler and the sentiment pipeline stay idle.
Init == SchedulerInit /\ CrawlerIdle /\ DayTaskIdle /\ SentimentIdle

Spec == Init /\ [][Next]_allvars

\* process_day(current_date) on its own, for a day and an answer of the
\* provider: an error, something that is no DataFrame, or a DataFrame of up to
\* MaxRows articles in the provider's order.
MaxRows == 3

Languages == {"English", "French", "english"}

DayResponses ==
    { [kind |-> "raise",     rows |-> << >>],
      [kind |-> "malformed", rows |-> << >>] }
    \cup
    { [kind |-> "frame", rows |-> [k \in DOMAIN l |-> Row(k, l[k])]] :
         l \in UNION {[1 .. n -> Languages] : n \in 0 .. MaxRows} }

TaskDays ==
    { strptime(<<2019, 4, 17>>), strptime(<<2019, 12, 31>>), strptime(<<2020, 2, 29>>) }

DayTaskInit ==
    /\ SchedulerIdle
    /\ CrawlerIdle
    /\ SentimentIdle
    /\ p_date \in TaskDays
    /\ p_resp \in DayResponses
    /\ p_result = None
    /\ ppc = "call"

\* lines 49-98: the call runs to its end.
DayTask ==
    /\ ppc = "call"
    /\ p_result' = <<process_day(p_date, p_resp)>>
    /\ ppc' = "returned"
    /\ UNCHANGED <<p_date, p_resp>>
    /\ UNCHANGED <<vars, cvars, svars>>

SpecDayTask == DayTaskInit /\ [][DayTask]_allvars

\* ------------------------------------ textAnalyzer.py and combine.py
\* A compound score is a number of ten-thousandths, from -10000 to 10000.
\* The 0.01 of textAnalyzer.py:54 and combine.py:38.
PositiveThreshold == 100
\* The -0.00 of textAnalyzer.py:56 and combine.py:40.
NegativeThreshold == 0

\* The most articles of a run of the pipeline.
MaxArticles == 2

\* analyze_sentiment with compound < -0.00 as the test of line 56.
analyze_sentimentStrict(compound) ==
    IF compound >= PositiveThreshold THEN "Positive"
    ELSE IF compound < NegativeThreshold THEN "Negative"
    ELSE "Neutral"

\* textAnalyzer.py lines 52-59: the label of an article whose text has the
\* given compound score.
analyze_sentiment(compound) ==
    IF compound >= PositiveThreshold THEN "Positive"
    ELSE IF compound <= NegativeThreshold THEN "Negative"
    ELSE "Neutral"

RECURSIVE SumOf(_)
SumOf(compounds) ==
    IF compounds = << >> THEN 0 ELSE Head(compounds) + SumOf(Tail(compounds))

\* combine.py line 37: mean(compounds), kept as the fraction sum / n.
Mean(compounds) == [sum |-> SumOf(compounds), n |-> Len(compounds)]

\* Comparisons of a fraction with a threshold.
AtLeast(avg, threshold) == avg.sum >= threshold * avg.n
AtMost(avg, threshold) == avg.sum <= threshold * avg.n

\* combine.py lines 38-43: the label of a day's average.
AverageSentiment(avg_compound) ==
    IF AtLeast(avg_compound, PositiveThreshold) THEN "Positive"
    ELSE IF AtMost(avg_compound, NegativeThreshold) THEN "Negative"
    ELSE "Neutral"

\* combine.py lines 23-33: the compounds of the articles of a day, in order.
RECURSIVE CompoundsOn(_, _)
CompoundsOn(articles, date_key) ==
    IF articles = << >> THEN << >>
    ELSE IF Head(articles).query_date = date_key
         THEN <<Head(articles).compound>> \o CompoundsOn(Tail(articles), date_key)
         ELSE CompoundsOn(Tail(articles), date_key)

\* combine.py lines 6-46.
aggregate_sentiments(articles) ==
    [date \in {articles[k].query_date : k \in DOMAIN articles} |->
        LET avg_compound == Mean(CompoundsOn(articles, date))
        IN  [avg_compound |-> avg_compound,
             sentiment    |-> AverageSentiment(avg_compound)]]

\* The compound scores and the days of the articles explored.
Compounds == {0 - 5000, 0, 50, 99, 100, 5000}

SentimentDays == { <<2019, 4, 13>>, <<2019, 4, 15>> }

ArticleLists ==
    UNION { [1 .. n -> [query_date : SentimentDays, compound : Compounds,
                        sentiment : {None}]] : n \in 0 .. MaxArticles }

SentimentInit ==
    /\ SchedulerIdle
    /\ CrawlerIdle
    /\ DayTaskIdle
    /\ s_articles \in ArticleLists
    /\ s_i = 0
    /\ aggregated = None
    /\ spc = "analyze"

\* textAnalyzer.py lines 71-75: one turn of the loop of add_sentiment_to_articles.
AnalyzeStep ==
    /\ spc = "analyze"
    /\ s_i < Len(s_articles)
    /\ s_articles' = [s_articles EXCEPT ![s_i + 1].sentiment =
                         <<analyze_sentiment(s_articles[s_i + 1].compound)>>]
    /\ s_i' = s_i + 1
    /\ UNCHANGED <<aggregated, spc>>
    /\ UNCHANGED <<vars, cvars, pvars>>

\* textAnalyzer.py lines 76 and 95-101: every article is labelled and the
\* file that combine.py reads is written.
AnalyzeEnd ==
    /\ spc = "analyze"
    /\ s_i = Len(s_articles)
    /\ spc' = "aggregate"
    /\ UNCHANGED <<s_articles, s_i, aggregated>>
    /\ UNCHANGED <<vars, cvars, pvars>>

\* combine.py lines 90-91: aggregate_sentiments is called.
Aggregate ==
    /\ spc = "aggregate"
    /\ aggregated' = <<aggregate_sentiments(s_articles)>>
    /\ spc' = "end"
    /\ UNCHANGED <<s_articles, s_i>>
    /\ UNCHANGED <<vars, cvars, pvars>>

SentimentNext ==
    \/ AnalyzeStep
    \/ AnalyzeEnd
    \/ Aggregate

SpecSentiment == SentimentInit /\ [][SentimentNext]_allvars

\* The steps of the main thread that nothing outside the program decides, and
\* the steps of the executor's worker threads. The interpreter keeps running
\* the main thread and every worker thread that can run.
MainStep ==
    \/ Submit
    \/ Submitted
    \/ \E d \in Days : Yield(d)
    \/ LoopEnd
    \/ Result
    \/ SaveOpen
    \/ SaveWrite
    \/ SaveClose
    \/ ExitWith
    \/ Handler
    \/ Finally

WorkerStep ==
    \/ WorkerStart
    \/ \E d \in Days : WorkerFinish(d)

SpecLive ==
    /\ Init
    /\ [][Next]_allvars
    /\ WF_allvars(MainStep)
    /\ WF_allvars(WorkerStep)

TypeOK ==
    /\ pc \in {"submit", "as_completed", "result", "save_open", "save_write",
               "shutdown", "except", "finally", "done", "crashed"}
    /\ exc \in {"none", "KeyboardInterrupt", "Exception"}
    /\ threads \in 0 .. max_workers


\* ------------------------------------------------------------------ claims
NoDuplicates(q) == \A j, k \in DOMAIN q : j # k => q[j] # q[k]

Last(q) == q[Len(q)]

IsPrefix(p, q) == Len(p) <= Len(q) /\ p = SubSeq(q, 1, Len(p))

\* The days, as written by strftime, that have an entry in a list of articles.
DaysOf(articles) == {articles[k].query_date : k \in DOMAIN articles}

\* C1: the scheduler makes exactly one Day Task per calendar day of
\* [start_date, end_date]: dates lists each day of the range once, no day is
\* queued twice or run twice (a task that failed or returned None included),
\* and once the submission loop has ended without an exception every day has
\* been submitted; when the run ends without exception every day ran exactly once.
C1_OneTaskPerDay ==
    /\ Len(dates) = end_date - start_date + 1
    /\ \A k \in DOMAIN dates : dates[k] = start_date + k - 1
    /\ NoDuplicates(work_queue)
    /\ \A d \in Days : runs[d] <= 1
    /\ \A d \in Days : runs[d] = (IF state[d] \in {"running", "finished"} THEN 1 ELSE 0)
    /\ \A k \in DOMAIN work_queue : state[work_queue[k]] = "pending"
    /\ (pc # "submit" /\ exc = "none") => \A d \in Days : state[d] # "none"
    /\ (pc = "done" /\ exc = "none") => \A d \in Days : runs[d] = 1

\* A run over the longest range ended normally with a day that failed, a day
\* that returned None and every day run once.
C1_Witness ==
    /\ pc = "done"
    /\ exc = "none"
    /\ Len(dates) = MaxDays
    /\ \E d \in Days : outcome[d].kind = "raise"
    /\ \E d \in Days : outcome[d] = Returned(None)
    /\ \A d \in Days : runs[d] = 1

\* C2: at most max_workers Day Tasks execute at the same time, and a task
\* still in the queue is one that has not started.
C2_BoundedConcurrency ==
    /\ Cardinality(Running) <= max_workers
    /\ Cardinality(Running) <= threads
    /\ threads <= max_workers

\* Every worker is busy while a further task waits in the queue.
C2_Witness ==
    /\ Cardinality(Running) = max_workers
    /\ work_queue # << >>


\* C3: when the run was interrupted, the final snapshot holds the result of
\* every Day Task that had produced an article when the interruption arrived.
C3_NoResultLost ==
    (pc = "done" /\ at_interrupt.seen) =>
        \A d \in at_interrupt.produced :
            strftime(d) \in DaysOf(files[FinalFile].data)

\* C4: between two completions (the main thread is back at as_completed) the
\* results appended are exactly those of the futures handed out that returned
\* an article, in the order handed out, and save_articles was called once per
\* append with the list as it was right after that append; a future that
\* raised or returned None caused neither.  While a checkpoint is being
\* written, the list passed to it ends with the result of the current future.
C4_AppendThenCheckpoint ==
    /\ pc = "as_completed" =>
          /\ Len(appended_from) = Len(daily_articles)
          /\ Range(appended_from) = {d \in yielded : Article(d)}
          /\ \A k \in DOMAIN daily_articles :
                daily_articles[k] = outcome[appended_from[k]].value[1]
          /\ Len(flush_calls) = Len(daily_articles)
          /\ \A k \in DOMAIN flush_calls :
                flush_calls[k] = [filename |-> PartialFile,
                                  articles |-> SubSeq(daily_articles, 1, k)]
    /\ (pc \in {"save_open", "save_write"} /\ filename = PartialFile) =>
          /\ Article(future[1])
          /\ Last(daily_articles) = outcome[future[1]].value[1]
          /\ Last(flush_calls) = [filename |-> PartialFile, articles |-> daily_articles]

\* A result was appended and checkpointed, a future that raised was passed
\* over, and the loop goes on with futures still to come.
C4_Witness ==
    /\ pc = "as_completed"
    /\ Len(daily_articles) = 1
    /\ Len(snapshots) = 1
    /\ snapshots[1].articles = daily_articles
    /\ \E d \in yielded : outcome[d].kind = "raise"
    /\ yielded # Days

\* C5: when main has ended (normally, after an exception of the scheduler or
\* after an interruption) its last call of save_articles was the one of the
\* finally clause, made once, with the list as it is at the end.
C5_FinalFlush ==
    /\ pc \in {"done", "crashed"} =>
          /\ flush_calls # << >>
          /\ Last(flush_calls) = [filename |-> FinalFile, articles |-> daily_articles]
          /\ Cardinality({k \in DOMAIN flush_calls :
                             flush_calls[k].filename = FinalFile}) = 1
    /\ pc = "done" =>
          files[FinalFile] = [exists |-> TRUE, data |-> daily_articles,
                              complete |-> TRUE]

\* An interrupted run ended with a final file that holds a result.
C5_Witness ==
    /\ pc = "done"
    /\ exc = "KeyboardInterrupt"
    /\ daily_articles # << >>
    /\ files[FinalFile].data = daily_articles

\* C6: once the interruption has reached the scheduler, no Day Task that had
\* not started is started.
C6_NoStartAfterInterrupt == [][exc = "KeyboardInterrupt" => runs' = runs]_vars

\* C7: each checkpoint file is at every moment either absent (nothing was
\* saved to it yet) or the complete last snapshot saved to it.
SnapshotsOf(f) == {k \in DOMAIN snapshots : snapshots[k].filename = f}

C7_AtomicReplace ==
    \A f \in DOMAIN files :
        IF SnapshotsOf(f) = {}
        THEN ~files[f].exists
        ELSE /\ files[f].complete
             /\ \E k \in SnapshotsOf(f) :
                   /\ \A j \in SnapshotsOf(f) : j <= k
                   /\ files[f].data = snapshots[k].articles

\* C8: of two consecutive snapshots written (the final one included) the
\* later holds at least as many results as the earlier.
C8_NonShrinking ==
    \A k \in 1 .. (Len(snapshots) - 1) :
        Len(snapshots[k].articles) <= Len(snapshots[k + 1].articles)

\* Three snapshots were written, the last by the finally clause, and they grew.
C8_Witness ==
    /\ Len(snapshots) = 3
    /\ snapshots[3].filename = FinalFile
    /\ Len(snapshots[1].articles) < Len(snapshots[2].articles)

\* C9: daily_articles, every snapshot and every file hold at most one entry
\* per day, and the query_date of an entry is the day of the future it was
\* taken from.
OnePerDay(articles) ==
    \A j, k \in DOMAIN articles :
        j # k => articles[j].query_date # articles[k].query_date

C9_OnePerDay ==
    /\ Len(appended_from) = Len(daily_articles)
    /\ \A k \in DOMAIN daily_articles :
          /\ appended_from[k] \in Days
          /\ daily_articles[k].query_date = strftime(appended_from[k])
          /\ daily_articles[k] = outcome[appended_from[k]].value[1]
    /\ OnePerDay(daily_articles)
    /\ \A k \in DOMAIN snapshots : OnePerDay(snapshots[k].articles)
    /\ \A f \in DOMAIN files : OnePerDay(files[f].data)

\* Results of two different days are in the list and in a snapshot.
C9_Witness ==
    /\ Len(daily_articles) >= 2
    /\ snapshots # << >>
    /\ Len(Last(snapshots).articles) >= 2

\* C10: a day whose process_day met an error (in article_search or after it)
\* yields no article; when the scheduler processes the future of such a day
\* (the main thread leaves line 125 and is not interrupted there) it goes on with the next completion and leaves daily_articles and the files as
\* they are; daily_articles never loses an entry; and a run that ends without
\* an exception of the scheduler holds the result of every other day.
C10_State ==
    /\ \A d \in failed : ~Article(d)
    /\ (pc = "done" /\ exc = "none") =>
          \A d \in Days : Article(d) <=> strftime(d) \in DaysOf(daily_articles)

C10_Step ==
    /\ (pc = "result" /\ pc' # "result" /\ future[1] \in failed
                       /\ exc' # "KeyboardInterrupt") =>
          /\ pc' = "as_completed"
          /\ exc' = "none"
          /\ daily_articles' = daily_articles
          /\ files' = files
    /\ IsPrefix(daily_articles, daily_articles')

C10_ErrorIsolated == [](C10_State) /\ [][C10_Step]_vars

\* A run ended normally with a result although the provider raised for one
\* day and the selection raised for another.
C10_Witness ==
    /\ pc = "done"
    /\ exc = "none"
    /\ daily_articles # << >>
    /\ \E d \in failed : outcome[d].kind = "raise"
    /\ \E d \in failed : outcome[d] = Returned(None)


\* C11: a call of save_articles that failed (or was cut short) leaves every
\* result in daily_articles, every later snapshot that is written holds
\* everything the failed call was given, and when a checkpoint write of the
\* for loop ends, well or badly, the loop goes on with the list unchanged.
FlushInProgress == pc \in {"save_open", "save_write"}

FailedCalls ==
    {j \in DOMAIN flush_calls :
        /\ \A k \in DOMAIN snapshots : snapshots[k].call # j
        /\ ~(j = Len(flush_calls) /\ FlushInProgress)}

C11_State ==
    \A j \in FailedCalls :
        /\ IsPrefix(flush_calls[j].articles, daily_articles)
        /\ \A k \in DOMAIN snapshots :
              snapshots[k].call > j =>
                  IsPrefix(flush_calls[j].articles, snapshots[k].articles)

C11_Step ==
    (/\ FlushInProgress
     /\ filename = PartialFile
     /\ pc' \notin {"save_open", "save_write"}
     /\ exc' # "KeyboardInterrupt") =>
        /\ pc' = "as_completed"
        /\ exc' = "none"
        /\ daily_articles' = daily_articles

C11_FailedFlushRetried == [](C11_State) /\ [][C11_Step]_vars

\* A checkpoint write of the for loop failed and a later one wrote a larger list.
C11_Witness ==
    \E j \in FailedCalls : \E k \in DOMAIN snapshots :
        /\ flush_calls[j].filename = PartialFile
        /\ snapshots[k].filename = PartialFile
        /\ snapshots[k].call > j
        /\ Len(snapshots[k].articles) > Len(flush_calls[j].articles)

\* C12: an interrupted run ends with an exit status and a completion report
\* that differ from those of a run that processed every day.
CompletedOutcome == <<0, <<"Finished processing all dates.">>>>

C12_StatusDistinguishes ==
    /\ (pc = "done" /\ exc = "none") =>
          <<ExitStatus, CompletionReport>> = CompletedOutcome
    /\ (pc = "done" /\ exc = "KeyboardInterrupt") =>
          /\ ExitStatus # CompletedOutcome[1]
          /\ CompletionReport # CompletedOutcome[2]

\* C18: when an uninterrupted run has ended, daily_articles and the final
\* snapshot hold exactly the results of the days whose task returned an
\* article, one entry each, whatever the order of completion.
C18_FinalSet ==
    (pc = "done" /\ exc = "none") =>
        /\ Len(daily_articles) = Cardinality({d \in Days : Article(d)})
        /\ \A d \in Days :
              Article(d) =>
                 \E k \in DOMAIN daily_articles :
                    daily_articles[k] = outcome[d].value[1]
        /\ \A k \in DOMAIN daily_articles :
              \E d \in Days :
                 Article(d) /\ daily_articles[k] = outcome[d].value[1]
        /\ files[FinalFile] = [exists |-> TRUE, data |-> daily_articles,
                               complete |-> TRUE]
        /\ Last(snapshots).articles = daily_articles

\* Three days, articles on the first two only, the second day's result
\* appended before the first day's.
C18_Witness ==
    /\ pc = "done"
    /\ exc = "none"
    /\ Len(dates) = 3
    /\ Article(dates[1]) /\ Article(dates[2]) /\ ~Article(dates[3])
    /\ Len(daily_articles) = 2
    /\ daily_articles[1].query_date = strftime(dates[2])
    /\ files[FinalFile].data = daily_articles

\* C19: daily_articles is appended to, save_articles is called and the files
\* are written by the main thread only, which does one of these at a time: an
\* append happens at line 127 and is followed by the call of save_articles, a
\* file changes only inside save_articles, no step of a worker thread touches
\* the list or the files, and what a file holds is always a prefix of the list.
C19_State ==
    /\ \A f \in DOMAIN files : IsPrefix(files[f].data, daily_articles)
    /\ FlushInProgress => ~files[filename].complete \/ pc = "save_open"

C19_Step ==
    /\ daily_articles' # daily_articles => pc = "result" /\ pc' = "save_open"
    /\ flush_calls' # flush_calls =>
          pc \in {"result", "finally"} /\ pc' = "save_open"
    /\ files' # files => FlushInProgress
    /\ (state' # state \/ outcome' # outcome) =>
          UNCHANGED <<daily_articles, flush_calls, files>>

C19_SingleWriter == [](C19_State) /\ [][C19_Step]_vars

\* A checkpoint is half written while a worker runs a task and another task's
\* article waits in its finished future.
C19_Witness ==
    /\ pc = "save_write"
    /\ files[filename].data # << >>
    /\ Running # {}
    /\ \E d \in Days : state[d] = "finished" /\ d \notin yielded /\ Article(d)

\* ---------------------------------------------------- claims on crawler.py
\* What the selector was given and what it fetched, read from the inputs: the
\* k-th candidate of the list and what get_article_data returned for it.
Scanned == DOMAIN scored

HasTitleAndText(k) ==
    /\ scored[k].fetched.title \notin {None, <<"">>}
    /\ scored[k].fetched.text \notin {None, <<"">>}

UsableScanned == {k \in Scanned : HasTitleAndText(k)}

ListingDate(k) == candidate_list[k].candidate_date

PublishDate(k) == scored[k].fetched.publish_date

ExpectedDate(k) ==
    IF ListingDate(k) # None THEN ListingDate(k)
    ELSE IF PublishDate(k) # None THEN <<PublishDate(k)[1].day>>
    ELSE None

Undated(k) == ExpectedDate(k) = None

WholeDays(k) ==
    IF ExpectedDate(k)[1] >= c_current_date
    THEN ExpectedDate(k)[1] - c_current_date
    ELSE c_current_date - ExpectedDate(k)[1]

ExactMatch(k) == ~Undated(k) /\ WholeDays(k) = 0

\* k is strictly closer to the target day than j; an undated candidate is
\* farther than every dated one.
Closer(k, j) == ~Undated(k) /\ (Undated(j) \/ WholeDays(k) < WholeDays(j))

DataOf(k) ==
    [title |-> scored[k].fetched.title, content |-> scored[k].fetched.text,
     url |-> <<candidate_list[k].url>>, candidate_date |-> ExpectedDate(k)]

FirstOf(S) == CHOOSE k \in S : \A j \in S : k <= j

\* C13: when choose_best_article has returned and no usable candidate is at
\* distance 0, it has returned a usable candidate that no usable candidate is
\* closer than, and the first of the list among those.
C13_ClosestFirst ==
    (/\ cpc = "chosen"
     /\ UsableScanned # {}
     /\ \A k \in UsableScanned : ~ExactMatch(k)) =>
        LET Closest == {k \in UsableScanned :
                          \A j \in UsableScanned : ~Closer(j, k)}
        IN  chosen = DataOf(FirstOf(Closest))

\* C14: when choose_best_article has returned and a usable candidate is at
\* distance 0, it has returned the first such candidate of the list and
\* stopped there, so the date returned is the target day, whatever the
\* candidates before it were.
C14_ExactMatchWins ==
    (/\ cpc = "chosen"
     /\ \E k \in UsableScanned : ExactMatch(k)) =>
        LET first == FirstOf({k \in UsableScanned : ExactMatch(k)})
        IN  /\ chosen = DataOf(first)
            /\ chosen.candidate_date = <<c_current_date>>
            /\ Len(scored) = first

\* The exact match is the third candidate, after a usable candidate one day
\* off and an unusable one.
C14_Witness ==
    /\ cpc = "chosen"
    /\ Len(scored) = 3
    /\ 1 \in UsableScanned /\ ~Undated(1) /\ WholeDays(1) = 1
    /\ 2 \notin UsableScanned
    /\ 3 \in UsableScanned /\ ExactMatch(3)
    /\ chosen.url = <<candidate_list[3].url>>

\* C15: when choose_best_article has returned and some candidate is usable
\* but none of the usable ones has a date, it has returned the first usable
\* candidate; it returns (None, None, None, None) only when no candidate is
\* usable.
C15_UndatedFallback ==
    cpc = "chosen" =>
        /\ (UsableScanned # {} /\ \A k \in UsableScanned : Undated(k)) =>
              chosen = DataOf(FirstOf(UsableScanned))
        /\ chosen = NoArticle => UsableScanned = {}

\* C16: no two candidates given to choose_best_article for a day have the same
\* url.
C16_DedupByUrl ==
    cpc \in {"collected", "choose", "chosen"} =>
        \A i, j \in DOMAIN candidate_list :
           i # j => candidate_list[i].url # candidate_list[j].url

\* C17: a candidate whose download failed or that has no title or no text is
\* passed over and nothing else: the for loop goes on to the next candidate
\* with best_data untouched, what is returned comes from a candidate with
\* title and text, every candidate is fetched unless an exact match ended the
\* scan, and when no candidate of the day has title and text the selector
\* returns (None, None, None, None), results is left alone and the while loop
\* moves to the next day.
C17_State ==
    cpc = "chosen" =>
        /\ chosen # NoArticle =>
              \E k \in UsableScanned :
                 /\ chosen.title = scored[k].fetched.title
                 /\ chosen.content = scored[k].fetched.text
                 /\ chosen.url = <<candidate_list[k].url>>
        /\ \/ Len(scored) = Len(candidate_list)
           \/ Len(scored) \in UsableScanned /\ ExactMatch(Len(scored))
        /\ UsableScanned = {} => chosen = NoArticle

C17_Step ==
    /\ (cpc = "choose" /\ ci' = ci + 1 /\ ci' \notin UsableScanned') =>
          /\ cpc' = "choose"
          /\ best_data' = best_data
          /\ best_diff' = best_diff
          /\ results' = results
    /\ (cpc = "chosen" /\ cpc' # "chosen" /\ UsableScanned = {}) =>
          /\ results' = results
          /\ c_current_date' = c_current_date + 1
          /\ cpc' = "loop"

C17_FailuresDiscarded == [](C17_State) /\ [][C17_Step]_cvars

\* The first day's two candidates both failed to download: the day has been
\* passed with nothing appended.
C17_Witness ==
    /\ cpc = "loop"
    /\ Len(visited) = 1
    /\ c_current_date = visited[1] + 1
    /\ results = << >>
    /\ Len(candidate_list) = 2
    /\ Len(scored) = 2
    /\ \A k \in Scanned : scored[k].fetched.title = None
    /\ chosen = NoArticle

\* C20: for every candidate with title and text, the date and the distance
\* the selector works with are the listing's date when there is one, else the
\* day of the fetched publish date, else no date and an infinite distance;
\* the distance of a dated candidate is the number of days between that date
\* and the target day; and what the selector returns carries that date.
C20_EffectiveDate ==
    /\ \A k \in UsableScanned :
          /\ scored[k].candidate_date = ExpectedDate(k)
          /\ scored[k].diff = IF Undated(k) THEN Inf ELSE Finite(WholeDays(k))
    /\ (cpc = "chosen" /\ chosen # NoArticle) =>
          \E k \in UsableScanned : chosen = DataOf(k)

\* The only candidate is listed one day before the target day and its fetched
\* publish date is the target day: the listing's date is the one returned.
C20_Witness ==
    /\ cpc = "chosen"
    /\ Len(candidate_list) = 1
    /\ ListingDate(1) = <<c_current_date - 1>>
    /\ 1 \in UsableScanned
    /\ PublishDate(1) # None /\ PublishDate(1)[1].day = c_current_date
    /\ chosen.candidate_date = <<c_current_date - 1>>

\* ------------------------------------------- further claims on GDELT.py
\* C21: daily_articles changes by an append at its end and in no other way;
\* every snapshot written is the whole of daily_articles as it was when
\* save_articles was called for it, and is a prefix of every later snapshot
\* and of daily_articles.
C21_State ==
    /\ \A j, k \in DOMAIN snapshots :
          j < k => IsPrefix(snapshots[j].articles, snapshots[k].articles)
    /\ \A k \in DOMAIN snapshots :
          /\ snapshots[k].articles = flush_calls[snapshots[k].call].articles
          /\ IsPrefix(snapshots[k].articles, daily_articles)

C21_Step ==
    /\ daily_articles' # daily_articles =>
          /\ Len(daily_articles') = Len(daily_articles) + 1
          /\ IsPrefix(daily_articles, daily_articles')
    /\ flush_calls' # flush_calls =>
          Last(flush_calls').articles = daily_articles'
    /\ snapshots' # snapshots =>
          /\ Last(snapshots').articles = daily_articles
          /\ daily_articles' = daily_articles

C21_AppendOnlySnapshots == [](C21_State) /\ [][C21_Step]_vars

\* Two checkpoints of one and two results and the final snapshot of the same
\* two results have been written.
C21_Witness ==
    /\ pc = "done"
    /\ Len(snapshots) = 3
    /\ Len(snapshots[1].articles) = 1
    /\ Len(snapshots[2].articles) = 2
    /\ snapshots[2].articles[1] = snapshots[1].articles[1]
    /\ snapshots[3].articles = snapshots[2].articles
    /\ snapshots[3].filename = FinalFile

\* C22: once KeyboardInterrupt has been raised in the try statement, no task
\* that is still running or queued changes daily_articles, whatever it
\* returns: the list stays what it was at the interruption, and that is what
\* the finally clause hands to save_articles and what the final file holds.
C22_State ==
    at_interrupt.seen =>
        /\ daily_articles = at_interrupt.articles
        /\ \A k \in DOMAIN flush_calls :
              flush_calls[k].filename = FinalFile =>
                 flush_calls[k].articles = at_interrupt.articles
        /\ \A k \in DOMAIN snapshots :
              snapshots[k].filename = FinalFile =>
                 snapshots[k].articles = at_interrupt.articles
        /\ (pc = "done" /\ files[FinalFile].complete) =>
              files[FinalFile].data = at_interrupt.articles

C22_Step ==
    (at_interrupt.seen /\ (state' # state \/ outcome' # outcome)) =>
        UNCHANGED <<daily_articles, flush_calls, files>>

C22_FrozenAfterInterrupt == [](C22_State) /\ [][C22_Step]_vars

\* A task that was running or queued at the interruption has returned an
\* article afterwards, and the final file holds the list of the interruption,
\* which has one article.
C22_Witness ==
    /\ pc = "done"
    /\ at_interrupt.seen
    /\ Len(at_interrupt.articles) = 1
    /\ \E d \in Days :
          /\ Article(d)
          /\ d \notin at_interrupt.produced
          /\ d \notin Range(appended_from)
    /\ files[FinalFile].complete
    /\ files[FinalFile].data = at_interrupt.articles

\* C23: when the main thread and the worker threads keep being run, every
\* run in which no exception reaches the try statement of main (no
\* KeyboardInterrupt, no error of submit) comes to its end: every day has run
\* once, every future has been handed out by as_completed and its article, if
\* any, appended once, and after that the finally clause has called
\* save_articles for the final file and main is over.
RunEnded ==
    /\ pc \in {"done", "crashed"}
    /\ \A d \in Days : runs[d] = 1 /\ state[d] = "finished"
    /\ yielded = Days
    /\ NoDuplicates(appended_from)
    /\ Range(appended_from) = {d \in Days : Article(d)}
    /\ flush_calls # << >>
    /\ Last(flush_calls).filename = FinalFile
    /\ Last(flush_calls).articles = daily_articles

C23_Terminates == <>(exc # "none" \/ RunEnded)

\* A run over three days, more than there are worker threads, has ended with
\* one task having raised and one having returned an article.
C23_Witness ==
    /\ RunEnded
    /\ pc = "done"
    /\ exc = "none"
    /\ Len(dates) = 3
    /\ \E d \in Days : outcome[d].kind = "raise"
    /\ \E d \in Days : Article(d)

\* ------------------------------------------ further claims on crawler.py
\* C24: in the crawler's while loop the day cursor moves by one day, and only
\* when a turn of the loop ends, whether the day had no candidate, no usable
\* candidate or a selected article; the days finished are the days from
\* start_date on, in calendar order and once each; a result is appended only
\* when choose_best_article returned content, for the day of the cursor; and
\* the loop ends, having gone through every day of [start_date, end_date).
C24_State ==
    /\ c_start_date <= c_current_date
    /\ c_current_date <= c_end_date
    /\ Len(visited) = c_current_date - c_start_date
    /\ \A k \in DOMAIN visited : visited[k] = c_start_date + k - 1
    /\ Len(results) <= Len(visited)
    /\ cpc = "end" => c_current_date = c_end_date

C24_Step ==
    /\ (cpc \in {"collected", "chosen"} /\ cpc' = "loop") =>
          /\ c_current_date' = c_current_date + 1
          /\ visited' = Append(visited, c_current_date)
    /\ c_current_date' # c_current_date =>
          /\ cpc' = "loop"
          /\ \/ cpc = "collected" /\ candidate_list = << >>
             \/ cpc = "chosen"
    /\ results' # results =>
          /\ cpc = "chosen"
          /\ chosen.content \notin {None, <<"">>}
          /\ Len(results') = Len(results) + 1
          /\ IsPrefix(results, results')
          /\ Last(results').date = strftime(c_current_date)
          /\ Last(results').content = chosen.content[1]
    /\ (cpc = "chosen" /\ cpc' # "chosen" /\ chosen.content \in {None, <<"">>}) =>
          results' = results

C24_CursorAdvances ==
    /\ [](C24_State)
    /\ [][C24_Step]_cvars
    /\ <>(cpc = "end")

\* The loop has ended after the two days of the range: the first day gave no
\* result, the second day's selected article is the only result.
C24_Witness ==
    /\ cpc = "end"
    /\ Len(visited) = 2
    /\ Len(results) = 1
    /\ results[1].date = strftime(visited[2])
    /\ visited[2] = c_end_date - 1
    /\ chosen.content # None

\* --------------------------------------------------- claims on process_day
\* C25: process_day returns the first row, in the provider's order, whose
\* language is English, with query_date set to the day it was called for; it
\* returns None when the provider raises, when the DataFrame is empty and
\* when none of its rows is English.
EnglishRows == {k \in DOMAIN p_resp.rows : p_resp.rows[k].language = "English"}

C25_FirstEnglishOfDay ==
    (ppc = "returned" /\ p_resp.kind # "malformed") =>
        /\ p_result[1].kind = "return"
        /\ (p_resp.kind = "raise" \/ EnglishRows = {}) => p_result[1].value = None
        /\ (p_resp.kind = "frame" /\ EnglishRows # {}) =>
              LET first == FirstOf(EnglishRows)
                  found == p_result[1].value
              IN  /\ found # None
                  /\ found[1].url = p_resp.rows[first].url
                  /\ found[1].language = "English"
                  /\ strptime(found[1].query_date) = p_date
                  /\ found[1].query_date[2] \in 1 .. 12
                  /\ found[1].query_date[3] \in 1 .. 31

\* Called for 2020-02-29 with a French article and two English ones after it,
\* the task has returned the second row tagged 2020-02-29.
C25_Witness ==
    /\ ppc = "returned"
    /\ p_resp.kind = "frame"
    /\ Len(p_resp.rows) = 3
    /\ EnglishRows = {2, 3}
    /\ p_result[1].value # None
    /\ p_result[1].value[1].url = 2
    /\ p_result[1].value[1].query_date = <<2020, 2, 29>>

\* ------------------------------------------ claims on the sentiment labels
\* C26: every compound score gets exactly one of the three labels: Positive
\* from 0.01 (100 ten-thousandths) upwards, Negative up to -0.00, which is 0,
\* and Neutral strictly between the two; and a day whose average equals the
\* score of an article gets the label of that article.
Labels == {"Positive", "Negative", "Neutral"}

Labelled == 1 .. s_i

C26_Articles ==
    \A k \in Labelled :
        LET c     == s_articles[k].compound
            label == s_articles[k].sentiment[1]
        IN  /\ s_articles[k].sentiment # None
            /\ label \in Labels
            /\ label = "Positive" <=> c >= 100
            /\ label = "Negative" <=> c <= 0
            /\ label = "Neutral"  <=> (0 < c /\ c < 100)

C26_Days ==
    spc = "end" =>
        \A date \in DOMAIN aggregated[1] :
            LET day == aggregated[1][date]
            IN  /\ day.sentiment \in Labels
                /\ day.avg_compound.n >= 1
                /\ \A k \in Labelled :
                      day.avg_compound.sum = s_articles[k].compound * day.avg_compound.n
                         => day.sentiment = s_articles[k].sentiment[1]

====
